---------------------------- MODULE Spec2Model ----------------------------
(***************************************************************************)
(* A model of 2020/day-24/part2.py: the hexagonal coordinate system, the   *)
(* path parser, the toggle-based construction of the initial grid and the  *)
(* generational simulation.                                                *)
(*                                                                         *)
(* A tile (Vector) is a record [x, y].  A raw string is a sequence of      *)
(* one-character strings.  A grid is a set of tiles.                       *)
(***************************************************************************)
EXTENDS Integers, Sequences, FiniteSets

(***************************************************************************)
(* Bounds of the model.                                                    *)
(***************************************************************************)
\* find_neighbor is exercised on the tiles with |x|, |y| <= CoordMax
CoordMax == 2
\* raw strings handed to path_to_directions have at most MaxLen characters
MaxLen == 4
\* the input file of load_grid has at most MaxLines lines
MaxLines == 3
\* initial grids of the simulation lie in columns 0..GridMax and rows
\* -1..GridMax-1
GridMax == 2
\* initial grids of the simulation hold at most MaxActive tiles
MaxActive == 4
\* nth is called with n in 0..MaxN
MaxN == 2
\* grids stepped cell by cell hold at most MaxStepActive tiles
MaxStepActive == 2

VARIABLES
    \* --- find_neighbor / get_active_neighbor_count applied to one tile
    ntile,      \* the tile argument
    ndir,       \* the direction argument
    ngrid,      \* the grid argument of get_active_neighbor_count
    npc,        \* "start", "out", "back", "counted"
    nout,       \* find_neighbor(ntile, ndir)
    nback,      \* find_neighbor(nout, opposite direction)
    ncells,     \* the cells produced by get_neighbor_cells, in order
    ncount,     \* get_active_neighbor_count(ngrid, ntile)
    \* --- load_grid
    lines0,     \* the lines of the input, as given (history)
    lines,      \* the lines not read yet
    path,       \* path_to_directions: the characters not consumed yet
    consumed,   \* path_to_directions: the characters consumed (history)
    prev,       \* path_to_directions: the pending prefix
    yielded,    \* path_to_directions: the Direction at the yield
    emitted,    \* the Directions emitted for the current path (history)
    tile,       \* directions_to_coords: the current tile
    flips,      \* the tiles handed to active_values so far (history)
    grid,       \* active_values: the grid being built
    pc,         \* "load", "parse", "yield", "done", "error"
    \* --- run_simulation / nth
    grid0,      \* the grid run_simulation is started with
    sgrid,      \* run_simulation: its local grid
    n,          \* nth: the index asked for
    idx,        \* islice: the number of items skipped so far
    gens,       \* the grids run_simulation has yielded (history)
    result,     \* nth: the item returned
    spc,        \* "yield", "step", "done"
    \* --- one step_simulation, cell by cell
    cinput,     \* the grid step_simulation was called with (history)
    cgrid,      \* the grid argument of step_simulation
    todo,       \* the cells the running loop of get_changes has not visited
    changes,    \* set(changes): the cells yielded so far
    by_active,  \* the cells yielded by the first loop (history)
    by_inactive,\* the cells yielded by the second loop (history)
    cresult,    \* the grid returned
    cpc         \* "active", "inactive", "apply", "done"

nbVars == <<ntile, ndir, ngrid, npc, nout, nback, ncells, ncount>>
loadVars == <<lines0, lines, path, consumed, prev, yielded, emitted, tile, flips, grid, pc>>
simVars == <<grid0, sgrid, n, idx, gens, result, spc>>
stepVars == <<cinput, cgrid, todo, changes, by_active, by_inactive, cresult, cpc>>
vars == <<nbVars, loadVars, simVars, stepVars>>

(***************************************************************************)
(* Coordinate system                                                       *)
(***************************************************************************)
Vector(x, y) == [x |-> x, y |-> y]

add_vectors(a, b) == Vector(a.x + b.x, a.y + b.y)

\* class Direction(Enum): the members, in definition order
DirectionMembers == <<"East", "West", "Northeast", "Northwest", "Southeast", "Southwest">>

Direction == {DirectionMembers[i] : i \in 1..Len(DirectionMembers)}

\* the value of each member
DirectionValue(d) ==
    CASE d = "East" -> <<"e">>
      [] d = "West" -> <<"w">>
      [] d = "Northeast" -> <<"n", "e">>
      [] d = "Northwest" -> <<"n", "w">>
      [] d = "Southeast" -> <<"s", "e">>
      [] d = "Southwest" -> <<"s", "w">>

\* Direction(value): the members with that value (none: ValueError)
DirectionOf(value) == {d \in Direction : DirectionValue(d) = value}

\* a copy-paste slip: Northwest given the offset of Northeast
NEIGHBOR_OFFSETS_nw_as_ne(direction, odd_row) ==
    CASE direction = "East" -> Vector(1, 0)
      [] direction = "West" -> Vector(-1, 0)
      [] direction = "Northeast" -> Vector(1 - odd_row, -1)
      [] direction = "Northwest" -> Vector(1 - odd_row, -1)
      [] direction = "Southeast" -> Vector(1 - odd_row, 1)
      [] direction = "Southwest" -> Vector(-odd_row, 1)

NEIGHBOR_OFFSETS(direction, odd_row) ==
    CASE direction = "East" -> Vector(1, 0)
      [] direction = "West" -> Vector(-1, 0)
      [] direction = "Northeast" -> Vector(1 - odd_row, -1)
      [] direction = "Northwest" -> Vector(-odd_row, -1)
      [] direction = "Southeast" -> Vector(1 - odd_row, 1)
      [] direction = "Southwest" -> Vector(-odd_row, 1)

\* a truncating remainder, as C's % computes it: -1 on odd negative rows
odd_row_truncating(t) == IF t.y < 0 THEN -((-t.y) % 2) ELSE t.y % 2

\* tile.y % 2 with Python's floored modulo: 0 or 1 for every integer y
odd_row(t) == t.y % 2

find_neighbor(t, direction) == add_vectors(t, NEIGHBOR_OFFSETS(direction, odd_row(t)))

\* get_neighbor_cells: one cell per Direction member, in definition order
get_neighbor_cells(g, cell) ==
    [i \in 1..Len(DirectionMembers) |-> find_neighbor(cell, DirectionMembers[i])]

\* sum(1 for neighbor in get_neighbor_cells(grid, cell) if neighbor in grid)
get_active_neighbor_count(g, cell) ==
    LET cells == get_neighbor_cells(g, cell)
    IN  Cardinality({i \in DOMAIN cells : cells[i] \in g})

(***************************************************************************)
(* find_neighbor and get_active_neighbor_count on one tile                 *)
(***************************************************************************)
Coords == (-CoordMax)..CoordMax

Tiles == {Vector(x, y) : x \in Coords, y \in Coords}

\* the tiles at most one column and one row away from t
Around(t) == {Vector(t.x + dx, t.y + dy) : dx \in -1..1, dy \in -1..1}

opposite(d) ==
    CASE d = "East" -> "West"
      [] d = "West" -> "East"
      [] d = "Northeast" -> "Southwest"
      [] d = "Southwest" -> "Northeast"
      [] d = "Northwest" -> "Southeast"
      [] d = "Southeast" -> "Northwest"

Origin == Vector(0, 0)

IdleNeighbor ==
    /\ ntile = Origin /\ ndir = "East" /\ ngrid = {} /\ npc = "idle"
    /\ nout = Origin /\ nback = Origin /\ ncells = <<>> /\ ncount = 0

InitNeighbor ==
    /\ ntile \in Tiles
    /\ ndir \in Direction
    /\ ngrid \in SUBSET Around(ntile)
    /\ npc = "start"
    /\ nout = ntile /\ nback = ntile /\ ncells = <<>> /\ ncount = 0

StepOut ==
    /\ npc = "start"
    /\ nout' = find_neighbor(ntile, ndir)
    /\ npc' = "out"
    /\ UNCHANGED <<ntile, ndir, ngrid, nback, ncells, ncount>>
    /\ UNCHANGED <<loadVars, simVars, stepVars>>

StepBack ==
    /\ npc = "out"
    /\ nback' = find_neighbor(nout, opposite(ndir))
    /\ npc' = "back"
    /\ UNCHANGED <<ntile, ndir, ngrid, nout, ncells, ncount>>
    /\ UNCHANGED <<loadVars, simVars, stepVars>>

CountNeighbors ==
    /\ npc = "back"
    /\ ncells' = get_neighbor_cells(ngrid, ntile)
    /\ ncount' = get_active_neighbor_count(ngrid, ntile)
    /\ npc' = "counted"
    /\ UNCHANGED <<ntile, ndir, ngrid, nout, nback>>
    /\ UNCHANGED <<loadVars, simVars, stepVars>>

NextNeighbor ==
    StepOut \/ StepBack \/ CountNeighbors

(***************************************************************************)
(* Path parser and initial state builder: load_grid                        *)
(***************************************************************************)
\* the characters str.strip() removes that the model's lines can hold
Whitespace == {" ", "\n"}

RECURSIVE lstrip(_)
lstrip(s) == IF s # <<>> /\ Head(s) \in Whitespace THEN lstrip(Tail(s)) ELSE s

RECURSIVE rstrip(_)
rstrip(s) ==
    IF s # <<>> /\ s[Len(s)] \in Whitespace THEN rstrip(SubSeq(s, 1, Len(s) - 1)) ELSE s

\* line.strip()
strip(s) == rstrip(lstrip(s))

\* a ^ b on sets
SymDiff(a, b) == (a \ b) \cup (b \ a)

\* the characters of the raw strings: "x" stands for any character that is
\* none of e, w, n, s
Alphabet == {"e", "w", "n", "s", "x"}

Strings(k) == UNION {[1..m -> Alphabet] : m \in 0..k}

\* lines of an input file, one of them malformed; the last line of a file
\* may lack its newline
ExampleLines ==
    { <<"n", "w", "w", "s", "w", "e", "e">>,
      <<"\n">>,
      <<"e", "s", "e", "w", "\n">>,
      <<" ", "s", "e", "\n">>,
      <<"n", "w", "\n">>,
      <<"w", "\n">>,
      <<"e", "x", "w", "\n">> }

LineLists == UNION {[1..m -> ExampleLines] : m \in 0..MaxLines}

IdleLoad ==
    /\ lines0 = <<>> /\ lines = <<>> /\ path = <<>> /\ consumed = <<>> /\ prev = <<>>
    /\ yielded = "none" /\ emitted = <<>> /\ tile = Origin /\ flips = <<>>
    /\ grid = {} /\ pc = "idle"

BeginLoad(input) ==
    /\ lines0 = input /\ lines = input
    /\ path = <<>> /\ consumed = <<>> /\ prev = <<>>
    /\ yielded = "none" /\ emitted = <<>> /\ tile = Origin /\ flips = <<>>
    /\ grid = {} /\ pc = "load"

\* one raw string, handed to path_to_directions as it is
InitParse == \E raw \in Strings(MaxLen) : BeginLoad(<<raw>>)

\* a file of lines
InitLoad == \E input \in LineLists : BeginLoad(input)

\* active_values asks for the next tile: the next line is stripped, and
\* path_to_directions and directions_to_coords start on it
NextLine ==
    /\ pc = "load" /\ lines # <<>>
    /\ path' = strip(Head(lines))
    /\ lines' = Tail(lines)
    /\ consumed' = <<>> /\ prev' = <<>> /\ emitted' = <<>>
    /\ tile' = Origin
    /\ pc' = "parse"
    /\ UNCHANGED <<lines0, yielded, flips, grid>>
    /\ UNCHANGED <<nbVars, simVars, stepVars>>

\* path_to_directions, a character that is not e or w: prev = c
ParsePrefix ==
    /\ pc = "parse" /\ path # <<>> /\ Head(path) \notin {"e", "w"}
    /\ prev' = <<Head(path)>>
    /\ consumed' = Append(consumed, Head(path))
    /\ path' = Tail(path)
    /\ UNCHANGED <<lines0, lines, yielded, emitted, tile, flips, grid, pc>>
    /\ UNCHANGED <<nbVars, simVars, stepVars>>

\* path_to_directions, e or w: yield Direction(prev + c)
ParseYield ==
    /\ pc = "parse" /\ path # <<>> /\ Head(path) \in {"e", "w"}
    /\ DirectionOf(prev \o <<Head(path)>>) # {}
    /\ yielded' = CHOOSE d \in DirectionOf(prev \o <<Head(path)>>) : TRUE
    /\ consumed' = Append(consumed, Head(path))
    /\ path' = Tail(path)
    /\ pc' = "yield"
    /\ UNCHANGED <<lines0, lines, prev, emitted, tile, flips, grid>>
    /\ UNCHANGED <<nbVars, simVars, stepVars>>

\* path_to_directions, e or w, and prev + c is the value of no Direction:
\* Direction(...) raises ValueError, which nothing catches
ParseError ==
    /\ pc = "parse" /\ path # <<>> /\ Head(path) \in {"e", "w"}
    /\ DirectionOf(prev \o <<Head(path)>>) = {}
    /\ consumed' = Append(consumed, Head(path))
    /\ path' = Tail(path)
    /\ pc' = "error"
    /\ UNCHANGED <<lines0, lines, prev, yielded, emitted, tile, flips, grid>>
    /\ UNCHANGED <<nbVars, simVars, stepVars>>

\* the next statement of the generator is skipped: prev keeps its value
ResumeKeepPrev ==
    /\ pc = "yield"
    /\ tile' = find_neighbor(tile, yielded)
    /\ emitted' = Append(emitted, yielded)
    /\ pc' = "parse"
    /\ UNCHANGED <<lines0, lines, path, consumed, prev, yielded, flips, grid>>
    /\ UNCHANGED <<nbVars, simVars, stepVars>>

\* directions_to_coords takes the Direction (tile = find_neighbor(tile,
\* direction)) and asks for the next: the generator resumes with prev = ""
Resume ==
    /\ pc = "yield"
    /\ tile' = find_neighbor(tile, yielded)
    /\ emitted' = Append(emitted, yielded)
    /\ prev' = <<>>
    /\ pc' = "parse"
    /\ UNCHANGED <<lines0, lines, path, consumed, yielded, flips, grid>>
    /\ UNCHANGED <<nbVars, simVars, stepVars>>

\* grid |= set([val])
EndPathUnion ==
    /\ pc = "parse" /\ path = <<>>
    /\ flips' = Append(flips, tile)
    /\ grid' = grid \cup {tile}
    /\ pc' = "load"
    /\ UNCHANGED <<lines0, lines, path, consumed, prev, yielded, emitted, tile>>
    /\ UNCHANGED <<nbVars, simVars, stepVars>>

\* the path is exhausted: the generator ends, directions_to_coords returns
\* its tile, and active_values toggles it: grid ^= set([val])
EndPath ==
    /\ pc = "parse" /\ path = <<>>
    /\ flips' = Append(flips, tile)
    /\ grid' = SymDiff(grid, {tile})
    /\ pc' = "load"
    /\ UNCHANGED <<lines0, lines, path, consumed, prev, yielded, emitted, tile>>
    /\ UNCHANGED <<nbVars, simVars, stepVars>>

\* no line is left: active_values returns grid
ReturnGrid ==
    /\ pc = "load" /\ lines = <<>>
    /\ pc' = "done"
    /\ UNCHANGED <<lines0, lines, path, consumed, prev, yielded, emitted, tile, flips, grid>>
    /\ UNCHANGED <<nbVars, simVars, stepVars>>

NextLoad ==
    NextLine \/ ParsePrefix \/ ParseYield \/ ParseError \/ Resume \/ EndPath \/ ReturnGrid

(***************************************************************************)
(* Simulation engine                                                       *)
(***************************************************************************)
get_active_cells(g) == g

\* set(accessible_cells()) - grid
get_accessible_inactive_cells(g) ==
    LET accessible_cells ==
            UNION {{find_neighbor(cell, DirectionMembers[i]) : i \in 1..Len(DirectionMembers)} :
                      cell \in g}
    IN  accessible_cells \ g

\* "active_neighbors >= 2" in the first loop
get_changes_ge2(g) ==
    {cell \in get_active_cells(g) :
        get_active_neighbor_count(g, cell) = 0 \/ get_active_neighbor_count(g, cell) >= 2}
    \cup
    {cell \in get_accessible_inactive_cells(g) : get_active_neighbor_count(g, cell) = 2}

\* "active_neighbors == 0" left out of the first loop
get_changes_no_zero(g) ==
    {cell \in get_active_cells(g) : get_active_neighbor_count(g, cell) > 2}
    \cup
    {cell \in get_accessible_inactive_cells(g) : get_active_neighbor_count(g, cell) = 2}

\* the cells get_changes yields, as set(changes) collects them
get_changes(g) ==
    {cell \in get_active_cells(g) :
        get_active_neighbor_count(g, cell) = 0 \/ get_active_neighbor_count(g, cell) > 2}
    \cup
    {cell \in get_accessible_inactive_cells(g) : get_active_neighbor_count(g, cell) = 2}

\* grid ^ set(changes)
apply_changes(g, ch) == SymDiff(g, ch)

step_simulation(g) == apply_changes(g, get_changes(g))

\* the tiles the initial grids of the simulation are drawn from
GridTiles == {Vector(x, y) : x \in 0..GridMax, y \in -1..(GridMax - 1)}

\* the subsets of GridTiles with at most k tiles
RECURSIVE GridsUpTo(_)
GridsUpTo(k) ==
    IF k = 0 THEN {{}}
    ELSE LET smaller == GridsUpTo(k - 1)
         IN  smaller \cup {g \cup {t} : g \in smaller, t \in GridTiles}

IdleSim ==
    /\ grid0 = {} /\ sgrid = {} /\ n = 0 /\ idx = 0 /\ gens = <<>>
    /\ result = {} /\ spc = "idle"

\* result = nth(run_simulation(grid), n)
InitSim ==
    /\ grid0 \in GridsUpTo(MaxActive)
    /\ sgrid = grid0
    /\ n \in 0..MaxN
    /\ idx = 0 /\ gens = <<>> /\ result = {} /\ spc = "yield"

\* run_simulation yields grid; islice has skipped fewer than n items and
\* drops it
YieldSkip ==
    /\ spc = "yield" /\ idx < n
    /\ gens' = Append(gens, sgrid)
    /\ idx' = idx + 1
    /\ spc' = "step"
    /\ UNCHANGED <<grid0, sgrid, n, result>>
    /\ UNCHANGED <<nbVars, loadVars, stepVars>>

\* run_simulation steps before it yields
YieldNthStepped ==
    /\ spc = "yield" /\ idx = n
    /\ gens' = Append(gens, sgrid)
    /\ result' = step_simulation(sgrid)
    /\ spc' = "done"
    /\ UNCHANGED <<grid0, sgrid, n, idx>>
    /\ UNCHANGED <<nbVars, loadVars, stepVars>>

\* run_simulation yields grid; islice has skipped n items and next() returns
\* this one
YieldNth ==
    /\ spc = "yield" /\ idx = n
    /\ gens' = Append(gens, sgrid)
    /\ result' = sgrid
    /\ spc' = "done"
    /\ UNCHANGED <<grid0, sgrid, n, idx>>
    /\ UNCHANGED <<nbVars, loadVars, stepVars>>

\* run_simulation is resumed: grid = step_simulation(grid)
Step ==
    /\ spc = "step"
    /\ sgrid' = step_simulation(sgrid)
    /\ spc' = "yield"
    /\ UNCHANGED <<grid0, n, idx, gens, result>>
    /\ UNCHANGED <<nbVars, loadVars, stepVars>>

NextSim ==
    YieldSkip \/ YieldNth \/ Step

(***************************************************************************)
(* One step_simulation, one cell of get_changes at a time.  The order in   *)
(* which Python iterates over a set is not specified: each loop takes, at  *)
(* every turn, the least or the greatest cell it has not visited.          *)
(***************************************************************************)
Less(a, b) == a.y < b.y \/ (a.y = b.y /\ a.x < b.x)

Ends(S) == {c \in S : (\A d \in S : d = c \/ Less(c, d)) \/ (\A d \in S : d = c \/ Less(d, c))}

IdleStep ==
    /\ cinput = {} /\ cgrid = {} /\ todo = {} /\ changes = {} /\ by_active = {}
    /\ by_inactive = {} /\ cresult = {} /\ cpc = "idle"

\* step_simulation(grid): get_changes starts on its first loop
InitStep ==
    /\ cinput \in GridsUpTo(MaxStepActive)
    /\ cgrid = cinput
    /\ todo = get_active_cells(cgrid)
    /\ changes = {} /\ by_active = {} /\ by_inactive = {} /\ cresult = {}
    /\ cpc = "active"

\* the first loop of get_changes, one cell
VisitActive ==
    /\ cpc = "active" /\ todo # {}
    /\ \E cell \in Ends(todo) :
        LET active_neighbors == get_active_neighbor_count(cgrid, cell)
            flip == active_neighbors = 0 \/ active_neighbors > 2
        IN  /\ todo' = todo \ {cell}
            /\ changes' = IF flip THEN changes \cup {cell} ELSE changes
            /\ by_active' = IF flip THEN by_active \cup {cell} ELSE by_active
    /\ UNCHANGED <<cinput, cgrid, by_inactive, cresult, cpc>>
    /\ UNCHANGED <<nbVars, loadVars, simVars>>

\* the first loop is over: get_accessible_inactive_cells(grid) is computed
StartInactive ==
    /\ cpc = "active" /\ todo = {}
    /\ todo' = get_accessible_inactive_cells(cgrid)
    /\ cpc' = "inactive"
    /\ UNCHANGED <<cinput, cgrid, changes, by_active, by_inactive, cresult>>
    /\ UNCHANGED <<nbVars, loadVars, simVars>>

\* the second loop counts on the grid with the flips made so far applied
VisitInactiveSequential ==
    /\ cpc = "inactive" /\ todo # {}
    /\ \E cell \in Ends(todo) :
        LET active_neighbors == get_active_neighbor_count(apply_changes(cgrid, changes), cell)
            flip == active_neighbors = 2
        IN  /\ todo' = todo \ {cell}
            /\ changes' = IF flip THEN changes \cup {cell} ELSE changes
            /\ by_inactive' = IF flip THEN by_inactive \cup {cell} ELSE by_inactive
    /\ UNCHANGED <<cinput, cgrid, by_active, cresult, cpc>>
    /\ UNCHANGED <<nbVars, loadVars, simVars>>

\* the second loop of get_changes, one cell
VisitInactive ==
    /\ cpc = "inactive" /\ todo # {}
    /\ \E cell \in Ends(todo) :
        LET active_neighbors == get_active_neighbor_count(cgrid, cell)
            flip == active_neighbors = 2
        IN  /\ todo' = todo \ {cell}
            /\ changes' = IF flip THEN changes \cup {cell} ELSE changes
            /\ by_inactive' = IF flip THEN by_inactive \cup {cell} ELSE by_inactive
    /\ UNCHANGED <<cinput, cgrid, by_active, cresult, cpc>>
    /\ UNCHANGED <<nbVars, loadVars, simVars>>

\* get_changes is exhausted: apply_changes returns grid ^ set(changes)
Apply ==
    /\ cpc = "inactive" /\ todo = {}
    /\ cresult' = apply_changes(cgrid, changes)
    /\ cpc' = "done"
    /\ UNCHANGED <<cinput, cgrid, todo, changes, by_active, by_inactive>>
    /\ UNCHANGED <<nbVars, loadVars, simVars>>

NextStep ==
    VisitActive \/ StartInactive \/ VisitInactive \/ Apply

(***************************************************************************)
(* Specifications                                                          *)
(***************************************************************************)
\* find_neighbor and get_active_neighbor_count on every tile of Tiles
StartNeighbor == InitNeighbor /\ IdleLoad /\ IdleSim /\ IdleStep

SpecNeighbor == StartNeighbor /\ [][NextNeighbor]_vars

\* load_grid on one raw string over Alphabet
StartParse == InitParse /\ IdleNeighbor /\ IdleSim /\ IdleStep

SpecParse == StartParse /\ [][NextLoad]_vars

\* load_grid on a file of ExampleLines
StartLoad == InitLoad /\ IdleNeighbor /\ IdleSim /\ IdleStep

SpecLoad == StartLoad /\ [][NextLoad]_vars

\* nth(run_simulation(grid), n)
StartSim == InitSim /\ IdleNeighbor /\ IdleLoad /\ IdleStep

SpecSim == StartSim /\ [][NextSim]_vars

\* step_simulation(grid), cell by cell
StartStep == InitStep /\ IdleNeighbor /\ IdleLoad /\ IdleSim

SpecStep == StartStep /\ [][NextStep]_vars

(***************************************************************************)
(* Properties                                                              *)
(***************************************************************************)
Range(seq) == {seq[i] : i \in 1..Len(seq)}

\* the six neighbours of t, as a set
Neighbours(t) == {find_neighbor(t, d) : d \in Direction}

\* the state of t in the generation after g, by the update rule
ActiveNext(g, t) ==
    LET c == Cardinality(Neighbours(t) \cap g)
    IN  (t \in g /\ c \in {1, 2}) \/ (t \notin g /\ c = 2)

\* the tiles at most two columns and two rows away from a tile of g or from
\* the origin
Near(g) ==
    UNION {{Vector(t.x + dx, t.y + dy) : dx \in -2..2, dy \in -2..2} : t \in g \cup {Origin}}

\* C1: a tile is in step_simulation(g) iff it is in g with 1 or 2 of its six
\* neighbours in g, or not in g with exactly 2 of them in g; stated, for
\* every step run_simulation takes, on every tile near g and every tile of
\* the new grid
C1_StepRule ==
    (spc = "yield" /\ gens # <<>>) =>
        LET g == gens[Len(gens)]
        IN  \A t \in Near(g) \cup sgrid : (t \in sgrid) <=> ActiveNext(g, t)

\* a step in which an active tile with more than 2 active neighbours went
\* inactive, an inactive tile of a negative row with exactly 2 came active,
\* and an active tile with 1 or 2 stayed
C1_Witness ==
    /\ spc = "yield" /\ gens # <<>>
    /\ \E t \in gens[Len(gens)] :
          Cardinality(Neighbours(t) \cap gens[Len(gens)]) > 2 /\ t \notin sgrid
    /\ \E t \in sgrid : t \notin gens[Len(gens)] /\ t.y < 0
    /\ \E t \in sgrid : t \in gens[Len(gens)]

\* C2: stepping from a tile in a direction and then in the opposite direction
\* comes back to the tile
C2_OppositeIsInverse ==
    npc \in {"back", "counted"} => nback = ntile

\* a round trip from an odd row with negative y
C2_Witness ==
    npc = "back" /\ ntile.y = -1 /\ ndir = "Northeast" /\ nout.y = -2

Occurrences(seq, v) == Cardinality({i \in 1..Len(seq) : seq[i] = v})

\* C3: a tile is in the grid of active_values iff it occurs an odd number of
\* times among the tiles handed to it
C3_OddOccurrences ==
    \A t \in Range(flips) \cup grid : (t \in grid) <=> (Occurrences(flips, t) % 2 = 1)

\* the same destination twice and nothing else: the empty grid
C3_Witness ==
    pc = "done" /\ Len(flips) = 2 /\ flips[1] = flips[2] /\ grid = {}

\* a concatenation of the tokens e, w, ne, nw, se, sw
RECURSIVE WellFormed(_)
WellFormed(s) ==
    \/ s = <<>>
    \/ Head(s) \in {"e", "w"} /\ WellFormed(Tail(s))
    \/ /\ Len(s) >= 2 /\ s[1] \in {"n", "s"} /\ s[2] \in {"e", "w"}
       /\ WellFormed(SubSeq(s, 3, Len(s)))

\* C4: path_to_directions never completes normally on a malformed string
C4_MalformedIsAnError ==
    pc = "done" => WellFormed(consumed)

\* step_simulation applied k times to g
RECURSIVE Iterate(_, _)
Iterate(g, k) == IF k = 0 THEN g ELSE step_simulation(Iterate(g, k - 1))

\* C5: the k-th grid run_simulation yields is step_simulation applied k-1
\* times to the initial grid, and nth returns the one with n applications
C5_NthGeneration ==
    /\ \A k \in 1..Len(gens) : gens[k] = Iterate(grid0, k - 1)
    /\ spc = "done" => (result = Iterate(grid0, n) /\ Len(gens) = n + 1)

\* nth returns a generation that differs from the two before it
C5_Witness ==
    spc = "done" /\ n = 2 /\ result # grid0 /\ result # gens[2] /\ result # {}

NWWSWEE == <<"n", "w", "w", "s", "w", "e", "e">>

\* C6 as stated: the path nwwswee resolves to the origin and the grid built
\* from it alone is empty
C6_GridIsEmpty ==
    (pc = "done" /\ lines0 = <<NWWSWEE>>) => (flips = <<Origin>> /\ grid = {})

\* C6 as amended: the path nwwswee resolves to the origin and the grid built
\* from it alone holds the origin and nothing else
C6_GridIsOrigin ==
    (pc = "done" /\ lines0 = <<NWWSWEE>>) => (flips = <<Origin>> /\ grid = {Origin})

C6_Witness ==
    pc = "done" /\ lines0 = <<NWWSWEE>>

\* C7: from a grid of one tile every generation after the first is empty,
\* and after an empty generation every generation is empty
C7_EmptyStaysEmpty ==
    /\ Cardinality(grid0) = 1 =>
          /\ \A k \in 1..Len(gens) : gens[k] = IF k = 1 THEN grid0 ELSE {}
          /\ (spc = "yield" /\ idx >= 1) => sgrid = {}
    /\ \A k \in 1..Len(gens) : gens[k] = {} =>
          /\ \A j \in k..Len(gens) : gens[j] = {}
          /\ spc = "yield" => sgrid = {}

\* three generations from one tile of an odd row with negative y
C7_Witness ==
    /\ Cardinality(grid0) = 1 /\ (\E t \in grid0 : t.y = -1)
    /\ Len(gens) = 3 /\ gens[2] = {} /\ gens[3] = {}

RECURSIVE Flatten(_)
Flatten(ds) == IF ds = <<>> THEN <<>> ELSE DirectionValue(Head(ds)) \o Flatten(Tail(ds))

\* C8: on a well-formed string path_to_directions raises no error, the
\* values of the Directions emitted so far spell the characters consumed so
\* far (less the pending prefix), and the prefix is empty after an emission
C8_TokensRoundTrip ==
    WellFormed(consumed \o path) =>
        /\ pc # "error"
        /\ pc = "yield" => Flatten(emitted) \o DirectionValue(yielded) = consumed
        /\ pc \in {"parse", "load", "done"} => Flatten(emitted) \o prev = consumed
        /\ (pc = "parse" /\ consumed # <<>> /\ consumed[Len(consumed)] \in {"e", "w"}) =>
              prev = <<>>
        /\ (pc = "parse" /\ path = <<>>) => Flatten(emitted) = consumed

\* a well-formed string of a two-character and a one-character token,
\* parsed to its end
C8_Witness ==
    /\ pc = "done" /\ WellFormed(consumed) /\ Len(consumed) = 3
    /\ Len(emitted) = 2 /\ Flatten(emitted) = consumed

C10_NeighboursDistinct ==
    npc = "counted" =>
        /\ Len(ncells) = 6
        /\ \A i, j \in 1..Len(ncells) : i # j => ncells[i] # ncells[j]
        /\ ntile \notin Range(ncells)
        /\ ncount = Cardinality(Range(ncells) \cap ngrid)
        /\ ncount \in 0..6

\* an active tile of an odd row with negative y, all six neighbours active
C10_Witness ==
    npc = "counted" /\ ntile.y = -1 /\ ntile \in ngrid /\ ncount = 6

=============================================================================
